---- MODULE Spec2Model ----
(***************************************************************************)
(* Model of src/rpc.rs: the translation of an RPC envelope (endpoint,      *)
(* body, method, headers) into at most one call of a domain operation.     *)
(*                                                                         *)
(* Text is modelled as a sequence of chunks.  A chunk is one character     *)
(* ("/", "?", "4", ...) or an atomic piece of a route name ("messages",     *)
(* "_challenge", ...).  No chunk is a prefix of another one, so equality    *)
(* and starts_with on the text are equality and prefix on the chunk        *)
(* sequence.  A JSON text is modelled by its syntax tree (or Malformed);   *)
(* the typed decoding of the tree into each route's shape is modelled in   *)
(* full.                                                                   *)
(***************************************************************************)
EXTENDS Integers, Sequences, FiniteSets, TLC

\* ------------------------------------------------------------------ bounds
\* Largest number of dynamic segments that follow the first path segment.
MaxTail == 2
\* Largest number of entries (or items) of a JSON object (or array).
MaxEntries == 2
\* Number of concurrently handled envelopes in SpecConc.
NumTasks == 2

\* Largest value of the u16 `limit` field.
U16Max == 65535

\* ------------------------------------------------------------------ values
\* Option<i64>, Option<String>, ... in one uniform shape.
None == [t |-> "none", n |-> 0, s |-> <<>>]
SomeInt(n) == [t |-> "int", n |-> n, s |-> <<>>]
SomeStr(s) == [t |-> "str", n |-> 0, s |-> s]

\* Result of a fallible conversion: Ok carries a sequence of values.
Err == [ok |-> FALSE, val |-> <<>>]
Ok(v) == [ok |-> TRUE, val |-> v]

\* --------------------------------------------------------------- JSON text
\* Scalars of a JSON text.
JNull == [t |-> "null", n |-> 0, s |-> <<>>]
JNum(n) == [t |-> "num", n |-> n, s |-> <<>>]
JStr(s) == [t |-> "str", n |-> 0, s |-> s]
\* A JSON text: not JSON at all, a scalar, an object (entries in textual
\* order, keys may repeat), or an array.
Malformed == [t |-> "malformed", sc |-> JNull, e |-> <<>>]
JScalar(v) == [t |-> "scalar", sc |-> v, e |-> <<>>]
JObj(entries) == [t |-> "obj", sc |-> JNull, e |-> entries]
JArr(items) == [t |-> "arr", sc |-> JNull, e |-> [i \in DOMAIN items |-> [k |-> "", v |-> items[i]]]]
Entry(key, value) == [k |-> key, v |-> value]

\* Sequences over S of length at most n.
SeqUpTo(S, n) == UNION {[1..m -> S] : m \in 0..n}

\* ------------------------------------------------------------ str::parse
DigitVal(c) == CASE c = "0" -> 0 [] c = "2" -> 2 [] c = "4" -> 4 [] OTHER -> -1
IsDigit(c) == DigitVal(c) >= 0

RECURSIVE DigitsValue(_, _)
DigitsValue(s, acc) ==
    IF s = <<>> THEN acc ELSE DigitsValue(Tail(s), 10 * acc + DigitVal(Head(s)))

\* <signed integer>::from_str: an optional sign followed by one or more
\* digits; anything else is an error.
ParseInt(s) ==
    IF s = <<>> THEN Err
    ELSE LET signed == Head(s) \in {"+", "-"}
             digits == IF signed THEN Tail(s) ELSE s
         IN IF digits = <<>> \/ \E i \in DOMAIN digits : ~IsDigit(digits[i]) THEN Err
            ELSE Ok(<<SomeInt(IF Head(s) = "-" THEN 0 - DigitsValue(digits, 0)
                                               ELSE DigitsValue(digits, 0))>>)

\* -------------------------------------------------------------- serde_json
\* The headers text of an envelope that carries no headers.
EmptyText == [t |-> "empty", sc |-> JNull, e |-> <<>>]

\* serde_json::from_str::<HashMap<String, String>>: the text must be an
\* object whose values are all strings; a repeated key keeps its last value.
DecodeStringMap(text) ==
    IF text.t = "obj" /\ \A i \in DOMAIN text.e : text.e[i].v.t = "str"
    THEN Ok(<<[key \in {text.e[i].k : i \in DOMAIN text.e} |->
                 LET last == CHOOSE i \in DOMAIN text.e :
                                 /\ text.e[i].k = key
                                 /\ \A j \in DOMAIN text.e : text.e[j].k = key => j <= i
                 IN text.e[last].v.s]>>)
    ELSE Err

\* FieldValue with a number too large for u16 wrapped around, not refused.
FieldValue_wrapping(kind, v) ==
    CASE kind = "opt_u16" ->
           IF v.t = "null" THEN Ok(<<None>>)
           ELSE IF v.t = "num" /\ v.n >= 0 THEN Ok(<<SomeInt(v.n % (U16Max + 1))>>)
           ELSE Err
      [] kind = "opt_i64" ->
           IF v.t = "null" THEN Ok(<<None>>)
           ELSE IF v.t = "num" THEN Ok(<<SomeInt(v.n)>>)
           ELSE Err
      [] OTHER ->
           IF v.t = "str" THEN Ok(<<SomeStr(v.s)>>) ELSE Err

\* One field of a derived Deserialize: Option<u16>, Option<i64> or String.
FieldValue(kind, v) ==
    CASE kind = "opt_u16" ->
           IF v.t = "null" THEN Ok(<<None>>)
           ELSE IF v.t = "num" /\ v.n >= 0 /\ v.n <= U16Max THEN Ok(<<SomeInt(v.n)>>)
           ELSE Err
      [] kind = "opt_i64" ->
           IF v.t = "null" THEN Ok(<<None>>)
           ELSE IF v.t = "num" THEN Ok(<<SomeInt(v.n)>>)
           ELSE Err
      [] OTHER ->
           IF v.t = "str" THEN Ok(<<SomeStr(v.s)>>) ELSE Err

\* A field that the object does not mention: an Option is None, anything
\* else is the error `missing field`.
MissingField(kind) == IF kind \in {"opt_u16", "opt_i64"} THEN Ok(<<None>>) ELSE Err

\* serde_json::from_str into a struct with #[derive(Deserialize)]: an object
\* is read by field name (a repeated field is an error, an entry whose key is
\* no field of the struct is skipped: no shape is deny_unknown_fields), an
\* array is read by position (its length must be the number of fields).
DecodeStruct(text, shape) ==
    LET fieldOf(i) ==
            IF text.t = "obj"
            THEN LET at == {j \in DOMAIN text.e : text.e[j].k = shape[i].name}
                 IN IF Cardinality(at) > 1 THEN Err
                    ELSE IF at = {} THEN MissingField(shape[i].kind)
                    ELSE FieldValue(shape[i].kind, text.e[CHOOSE j \in at : TRUE].v)
            ELSE FieldValue(shape[i].kind, text.e[i].v)
    IN IF text.t \notin {"obj", "arr"} THEN Err
       ELSE IF text.t = "arr" /\ Len(text.e) # Len(shape) THEN Err
       ELSE IF \E i \in DOMAIN shape : ~fieldOf(i).ok THEN Err
       ELSE Ok([i \in DOMAIN shape |-> fieldOf(i).val[1]])

\* The decode targets of the routes.
QueryOptions == <<[name |-> "limit", kind |-> "opt_u16"],
                  [name |-> "from_server_id", kind |-> "opt_i64"]>>
PublicKeyShape == <<[name |-> "public_key", kind |-> "string"]>>
FileShape == <<[name |-> "file", kind |-> "string"]>>
\* The message payload of POST /messages (models::Message).
MessageShape == <<[name |-> "text", kind |-> "string"]>>

\* ------------------------------------------------------------------- text
\* The chunk that stands for the serialised JSON text of a query.
JsonChunk == "{json}"

StartsWith(s, prefix) ==
    Len(prefix) <= Len(s) /\ SubSeq(s, 1, Len(prefix)) = prefix

\* Position of the first chunk of s that is in set cs, or 0.
FirstIndex(s, cs) ==
    IF \E i \in DOMAIN s : s[i] \in cs
    THEN CHOOSE i \in DOMAIN s : s[i] \in cs /\ \A j \in 1..(i - 1) : s[j] \notin cs
    ELSE 0

\* str::split("/"): the pieces between the slashes, empty pieces included.
RECURSIVE Split(_)
Split(s) ==
    LET i == FirstIndex(s, {"/"})
    IN IF i = 0 THEN <<s>>
       ELSE <<SubSeq(s, 1, i - 1)>> \o Split(SubSeq(s, i + 1, Len(s)))

\* --------------------------------------------------------------- http::Uri
\* Characters that no URI may hold.
IllegalChars == {" "}

\* str::parse::<http::Uri> of an endpoint that is empty or starts with "/":
\* the empty text and a text with an illegal character are errors; the path
\* is the text before the first "?", the query (if any) the text after it.
ParseUri(endpoint) ==
    IF endpoint = <<>> \/ \E i \in DOMAIN endpoint : endpoint[i] \in IllegalChars
    THEN [ok |-> FALSE, path |-> <<>>, hasQuery |-> FALSE, query |-> <<>>]
    ELSE LET q == FirstIndex(endpoint, {"?"})
         IN IF q = 0
            THEN [ok |-> TRUE, path |-> endpoint, hasQuery |-> FALSE, query |-> <<>>]
            ELSE [ok |-> TRUE, path |-> SubSeq(endpoint, 1, q - 1), hasQuery |-> TRUE,
                  query |-> SubSeq(endpoint, q + 1, Len(endpoint))]

\* The JSON text that a query holds: the envelope's query JSON when the
\* query is exactly that text, and no JSON that decodes into a struct
\* otherwise.
QueryText(query, json) == IF query = <<JsonChunk>> THEN json ELSE Malformed

\* ------------------------------------------------------------------ inputs
Token1 == <<"t", "1">>
Token2 == <<"t", "2">>
Key1 == <<"p", "k", "1">>

Methods == {"GET", "POST", "DELETE", "get", "PUT"}

\* Header texts: no headers, texts that are no string map, and every
\* object of up to MaxEntries entries drawn from HeaderEntries.
HeaderEntries ==
    {Entry("Room", JStr(v)) : v \in {<<"4">>, <<"-", "4">>, <<"+", "4">>, <<"z">>, <<"4", "z">>}}
    \cup {Entry("Room", JNum(4)), Entry("room", JStr(<<"4">>)),
          Entry("Authorization", JStr(Token1)), Entry("Authorization", JStr(Token2)),
          Entry("Authorization", JNull)}
HeaderTexts ==
    {EmptyText, Malformed, JScalar(JStr(<<"4">>)), JArr(<<JStr(<<"4">>)>>)}
    \cup {JObj(es) : es \in SeqUpTo(HeaderEntries, MaxEntries)}
RoomOnly == JObj(<<Entry("Room", JStr(<<"4">>))>>)
RoomAndToken == JObj(<<Entry("Room", JStr(<<"4">>)), Entry("Authorization", JStr(Token1))>>)
FewHeaders == {RoomOnly, RoomAndToken}

\* Paths: "/" first ("/" tail)*, with up to MaxTail tails.
FirstSegs ==
    {<<>>, <<"x">>, <<"messages">>, <<"messages", "x">>, <<"deleted_", "messages">>,
     <<"moderators">>, <<"block_list">>, <<"block_list", "x">>, <<"member_count">>,
     <<"auth_token">>, <<"auth_token", "_challenge">>, <<"claim_", "auth_token">>,
     <<"files">>, <<"files", "x">>}
TailSegs == {<<>>, <<"4", "2">>, <<"-", "4">>, <<"z">>}

RECURSIVE Join(_)
Join(segs) == IF segs = <<>> THEN <<>> ELSE <<"/">> \o Head(segs) \o Join(Tail(segs))

Paths == {Join(<<f>> \o tails) : f \in FirstSegs, tails \in SeqUpTo(TailSegs, MaxTail)}
QueryPaths ==
    {<<"/", "messages">>, <<"/", "deleted_", "messages">>,
     <<"/", "auth_token", "_challenge">>, <<"/", "moderators">>}
PostPaths ==
    {<<"/", "messages">>, <<"/", "block_list">>, <<"/", "claim_", "auth_token">>,
     <<"/", "files">>, <<"/", "x">>}

\* JSON texts of queries and bodies.
QueryValues == {JNum(10), JNum(U16Max + 1), JStr(Key1), JNull}
QueryEntries ==
    {Entry(k, v) : k \in {"limit", "from_server_id", "public_key", "extra"}, v \in QueryValues}
QueryJsons ==
    {Malformed, JScalar(JNum(10))}
    \cup {JObj(es) : es \in SeqUpTo(QueryEntries, MaxEntries)}
    \cup {JArr(vs) : vs \in SeqUpTo(QueryValues, MaxEntries)}
FewQueryJsons == {JObj(<<Entry("public_key", JStr(Key1))>>)}

BodyValues == {JStr(Key1), JNum(10), JNull}
BodyEntries ==
    {Entry(k, v) : k \in {"public_key", "file", "text", "extra"}, v \in BodyValues}
BodyTexts ==
    {EmptyText, Malformed, JScalar(JStr(Key1))}
    \cup {JObj(es) : es \in SeqUpTo(BodyEntries, MaxEntries)}
    \cup {JArr(vs) : vs \in SeqUpTo(BodyValues, MaxEntries)}
FullBody ==
    JObj(<<Entry("public_key", JStr(Key1)), Entry("file", JStr(Key1)),
           Entry("text", JStr(Key1))>>)

\* An endpoint: its text, and the JSON text that JsonChunk stands for in it.
Endpoint(text, json) == [text |-> text, json |-> json]
PlainEndpoints(paths) == {Endpoint(p, Malformed) : p \in paths}
QueryEndpoints(paths, jsons) ==
    {Endpoint(p \o <<"?">>, Malformed) : p \in paths}
    \cup {Endpoint(p \o <<"?", JsonChunk>>, j) : p \in paths, j \in jsons}
BadEndpoints == {Endpoint(<<>>, Malformed), Endpoint(<<"/", "messages", " ">>, Malformed)}
FewEndpoints ==
    BadEndpoints
    \cup {Endpoint(<<"/", "auth_token">>, Malformed),
          Endpoint(<<"/", "block_list">>, Malformed),
          Endpoint(<<"/", "messages", "?", JsonChunk>>, JObj(<<>>))}

RpcCall(e, b, m, h) == [endpoint |-> e, body |-> b, method |-> m, headers |-> h]

\* A few envelopes, for the handling of several at once.
ConcEnvelopes ==
    {RpcCall(e, b, m, h) :
        e \in {Endpoint(<<"/", "block_list">>, Malformed),
               Endpoint(<<"/", "messages", "/", "4", "2">>, Malformed)},
        b \in {JObj(<<Entry("public_key", JStr(Key1))>>)},
        m \in {"GET", "POST", "DELETE"},
        h \in {JObj(<<Entry("Room", JStr(<<"4">>)), Entry("Authorization", JStr(Token1))>>),
               JObj(<<Entry("Room", JStr(<<"4">>))>>)}}
    \cup {RpcCall(Endpoint(<<"/", "block_list">>, Malformed), EmptyText, "POST", EmptyText),
          RpcCall(Endpoint(<<"/", "block_list">>, Malformed), EmptyText, "PUT", RoomOnly),
          RpcCall(Endpoint(<<>>, Malformed), EmptyText, "GET", RoomOnly)}

\* Answers of storage::pool_by_room_id: a pool, or one of its errors.
ResolverErrors == {"NoSuchRoom", "DatabaseFailedInternally"}
ResolverAnswers == {"pool"} \cup ResolverErrors

\* ------------------------------------------------------ context extraction
\* get_room_id with a `Room` value that is no integer read as room 0.
get_room_id_orDefault(rpc_call) ==
    IF rpc_call.headers.t = "empty" THEN None
    ELSE LET headers == DecodeStringMap(rpc_call.headers)
         IN IF ~headers.ok THEN None
            ELSE IF "Room" \notin DOMAIN headers.val[1] THEN None
            ELSE LET parsed == ParseInt(headers.val[1]["Room"])
                 IN IF parsed.ok THEN parsed.val[1] ELSE SomeInt(0)

\* get_room_id: the `Room` header as an integer, or None.
get_room_id(rpc_call) ==
    IF rpc_call.headers.t = "empty" THEN None
    ELSE LET headers == DecodeStringMap(rpc_call.headers)
         IN IF ~headers.ok THEN None
            ELSE IF "Room" \notin DOMAIN headers.val[1] THEN None
            ELSE LET parsed == ParseInt(headers.val[1]["Room"])
                 IN IF parsed.ok THEN parsed.val[1] ELSE None

\* get_auth_token: the `Authorization` header, or None.
get_auth_token(rpc_call) ==
    IF rpc_call.headers.t = "empty" THEN None
    ELSE LET headers == DecodeStringMap(rpc_call.headers)
         IN IF ~headers.ok THEN None
            ELSE IF "Authorization" \notin DOMAIN headers.val[1] THEN None
            ELSE SomeStr(headers.val[1]["Authorization"])

\* ---------------------------------------------------------------- routing
\* The auth argument of an operation that takes no auth token.
NotPassed == [t |-> "notpassed", n |-> 0, s |-> <<>>]

\* A call of a domain operation (handlers::name).
Call(name, args, auth, pool) == [name |-> name, args |-> args, auth |-> auth, pool |-> pool]

\* What a handler does: the operations it calls, and how it returns.
Rejected == [calls |-> <<>>, outcome |-> "InvalidRpcCall"]
Invoked(call) == [calls |-> <<call>>, outcome |-> "Handled"]

\* QueryRoute with a missing query taken as the empty object.
QueryRoute_defaultOptions(uri, json, shape, name, pool) ==
    LET query_options == DecodeStruct(IF uri.hasQuery THEN QueryText(uri.query, json)
                                      ELSE JObj(<<>>), shape)
    IN IF ~query_options.ok THEN Rejected
       ELSE Invoked(Call(name, query_options.val, NotPassed, pool))

\* A route that decodes the query into `shape` and calls `name` with it.
QueryRoute(uri, json, shape, name, pool) ==
    IF ~uri.hasQuery THEN Rejected
    ELSE LET query_options == DecodeStruct(QueryText(uri.query, json), shape)
         IN IF ~query_options.ok THEN Rejected
            ELSE Invoked(Call(name, query_options.val, NotPassed, pool))

handle_get_request(rpc_call, uri, pool) ==
    IF StartsWith(uri.path, <<"/", "files">>)
    THEN LET components == Split(Tail(uri.path))
         IN IF Len(components) # 2 THEN Rejected
            ELSE Invoked(Call("get_file", <<SomeStr(components[2])>>, NotPassed, None))
    ELSE CASE uri.path = <<"/", "messages">> ->
                QueryRoute(uri, rpc_call.endpoint.json, QueryOptions, "get_messages", pool)
           [] uri.path = <<"/", "deleted_", "messages">> ->
                QueryRoute(uri, rpc_call.endpoint.json, QueryOptions, "get_deleted_messages", pool)
           [] uri.path = <<"/", "moderators">> ->
                Invoked(Call("get_moderators", <<>>, NotPassed, pool))
           [] uri.path = <<"/", "block_list">> ->
                Invoked(Call("get_banned_public_keys", <<>>, NotPassed, pool))
           [] uri.path = <<"/", "member_count">> ->
                Invoked(Call("get_member_count", <<>>, NotPassed, pool))
           [] uri.path = <<"/", "auth_token", "_challenge">> ->
                QueryRoute(uri, rpc_call.endpoint.json, PublicKeyShape,
                           "get_auth_token_challenge", pool)
           [] OTHER -> Rejected

\* BodyRoute with the operation called before the body is validated.
BodyRoute_callBeforeDecode(rpc_call, shape, name, auth, pool) ==
    LET json == DecodeStruct(rpc_call.body, shape)
    IN IF ~json.ok THEN [calls |-> <<Call(name, <<>>, auth, pool)>>, outcome |-> "InvalidRpcCall"]
       ELSE Invoked(Call(name, json.val, auth, pool))

\* A route that decodes the body into `shape` and calls `name` with it.
BodyRoute(rpc_call, shape, name, auth, pool) ==
    LET json == DecodeStruct(rpc_call.body, shape)
    IN IF ~json.ok THEN Rejected ELSE Invoked(Call(name, json.val, auth, pool))

\* handle_post_request with the auth token not handed on to ban.
handle_post_request_tokenDropped(rpc_call, uri, auth_token, pool) ==
    CASE uri.path = <<"/", "messages">> ->
           BodyRoute(rpc_call, MessageShape, "insert_message", auth_token, pool)
      [] uri.path = <<"/", "block_list">> ->
           BodyRoute(rpc_call, PublicKeyShape, "ban", None, pool)
      [] uri.path = <<"/", "claim_", "auth_token">> ->
           BodyRoute(rpc_call, PublicKeyShape, "claim_auth_token", auth_token, pool)
      [] uri.path = <<"/", "files">> ->
           BodyRoute(rpc_call, FileShape, "store_file", NotPassed, pool)
      [] OTHER -> Rejected

handle_post_request(rpc_call, uri, auth_token, pool) ==
    CASE uri.path = <<"/", "messages">> ->
           BodyRoute(rpc_call, MessageShape, "insert_message", auth_token, pool)
      [] uri.path = <<"/", "block_list">> ->
           BodyRoute(rpc_call, PublicKeyShape, "ban", auth_token, pool)
      [] uri.path = <<"/", "claim_", "auth_token">> ->
           BodyRoute(rpc_call, PublicKeyShape, "claim_auth_token", auth_token, pool)
      [] uri.path = <<"/", "files">> ->
           BodyRoute(rpc_call, FileShape, "store_file", NotPassed, pool)
      [] OTHER -> Rejected

handle_delete_request(rpc_call, uri, auth_token, pool) ==
    IF StartsWith(uri.path, <<"/", "messages">>)
    THEN LET components == Split(Tail(uri.path))
         IN IF Len(components) # 2 THEN Rejected
            ELSE LET server_id == ParseInt(components[2])
                 IN IF ~server_id.ok THEN Rejected
                    ELSE Invoked(Call("delete_message", server_id.val, auth_token, pool))
    ELSE IF StartsWith(uri.path, <<"/", "block_list">>)
    THEN LET components == Split(Tail(uri.path))
         IN IF Len(components) # 2 THEN Rejected
            ELSE Invoked(Call("unban", <<SomeStr(components[2])>>, auth_token, pool))
    ELSE IF uri.path = <<"/", "auth_token">>
    THEN Invoked(Call("delete_auth_token", <<>>, auth_token, pool))
    ELSE Rejected

\* MethodHandler matching the method without regard to case.
MethodHandler_ignoreCase(method) ==
    CASE method \in {"GET", "get"} -> "get"
      [] method \in {"POST", "post"} -> "post"
      [] method \in {"DELETE", "delete"} -> "delete"
      [] OTHER -> ""

\* The handler that `method` selects, or "" for no handler.
MethodHandler(method) ==
    CASE method = "GET" -> "get"
      [] method = "POST" -> "post"
      [] method = "DELETE" -> "delete"
      [] OTHER -> ""

\* handle_rpc_call run from its beginning to its end on one envelope, the
\* resolver answering `answer` if it is asked.
handle_rpc_call(rpc_call, answer) ==
    LET room == get_room_id(rpc_call)
        parsed == ParseUri(rpc_call.endpoint.text)
        token == get_auth_token(rpc_call)
        handler == MethodHandler(rpc_call.method)
    IN IF room = None THEN Rejected
       ELSE IF answer # "pool" THEN [calls |-> <<>>, outcome |-> answer]
       ELSE IF ~parsed.ok THEN Rejected
       ELSE CASE handler = "get" -> handle_get_request(rpc_call, parsed, room)
              [] handler = "post" -> handle_post_request(rpc_call, parsed, token, room)
              [] handler = "delete" -> handle_delete_request(rpc_call, parsed, token, room)
              [] OTHER -> Rejected

\* ------------------------------------------------------------------- state
VARIABLES
    rpc_call,       \* task -> the envelope it handles
    pc,             \* task -> its place in handle_rpc_call
    room_id,        \* task -> result of get_room_id
    pool,           \* task -> the pool of its room (the room), once resolved
    uri,            \* task -> the parsed endpoint
    auth_token,     \* task -> result of get_auth_token
    outcome,        \* task -> "" while running, then how handle_rpc_call returned
    invoked,        \* task -> the domain operations called, in order
    resolved        \* task -> the answers pool_by_room_id gave it, in order

vars == <<rpc_call, pc, room_id, pool, uri, auth_token, outcome, invoked, resolved>>

Tasks == DOMAIN pc

NoUri == [ok |-> FALSE, path |-> <<>>, hasQuery |-> FALSE, query |-> <<>>]

InitWith(tasks, envelopes) ==
    /\ rpc_call \in [tasks -> envelopes]
    /\ pc = [t \in tasks |-> "room"]
    /\ room_id = [t \in tasks |-> None]
    /\ pool = [t \in tasks |-> None]
    /\ uri = [t \in tasks |-> NoUri]
    /\ auth_token = [t \in tasks |-> None]
    /\ outcome = [t \in tasks |-> ""]
    /\ invoked = [t \in tasks |-> <<>>]
    /\ resolved = [t \in tasks |-> <<>>]

\* One envelope.  Each family of envelopes varies one field over all its
\* texts and the other fields over a few.
InitOne(e, b, m, h) == InitWith({1}, {RpcCall(e, b, m, h)})
Init ==
    \/ \E e \in FewEndpoints, m \in Methods, h \in HeaderTexts :
          InitOne(e, FullBody, m, h)
    \/ \E e \in BadEndpoints \cup PlainEndpoints(Paths) \cup QueryEndpoints(Paths, FewQueryJsons),
          m \in Methods, h \in FewHeaders :
          InitOne(e, FullBody, m, h)
    \/ \E e \in PlainEndpoints(QueryPaths) \cup QueryEndpoints(QueryPaths, QueryJsons) :
          InitOne(e, EmptyText, "GET", RoomOnly)
    \/ \E e \in PlainEndpoints(PostPaths), b \in BodyTexts, h \in FewHeaders :
          InitOne(e, b, "POST", h)
\* NumTasks envelopes handled at once.
InitConc == InitWith(1..NumTasks, ConcEnvelopes)

\* The task returns `result` from handle_rpc_call.
Return(t, result) ==
    /\ pc' = [pc EXCEPT ![t] = "done"]
    /\ outcome' = [outcome EXCEPT ![t] = result]

\* GetRoomId behind a lock shared by all tasks: a task that finds another
\* one at work is turned away.
GetRoomId_sharedLock(t) ==
    /\ pc[t] = "room"
    /\ LET id == get_room_id(rpc_call[t])
       IN IF id = None \/ \E u \in Tasks \ {t} : pc[u] \notin {"room", "done"}
          THEN Return(t, "InvalidRpcCall") /\ UNCHANGED room_id
          ELSE /\ room_id' = [room_id EXCEPT ![t] = id]
               /\ pc' = [pc EXCEPT ![t] = "resolve"]
               /\ UNCHANGED outcome
    /\ UNCHANGED <<rpc_call, pool, uri, auth_token, invoked, resolved>>

\* handle_rpc_call, the room: no room id is InvalidRpcCall.
GetRoomId(t) ==
    /\ pc[t] = "room"
    /\ LET id == get_room_id(rpc_call[t])
       IN IF id = None
          THEN Return(t, "InvalidRpcCall") /\ UNCHANGED room_id
          ELSE /\ room_id' = [room_id EXCEPT ![t] = id]
               /\ pc' = [pc EXCEPT ![t] = "resolve"]
               /\ UNCHANGED outcome
    /\ UNCHANGED <<rpc_call, pool, uri, auth_token, invoked, resolved>>

\* PoolByRoomId with every error of the resolver turned into InvalidRpcCall.
PoolByRoomId_asInvalidRpcCall(t) ==
    /\ pc[t] = "resolve"
    /\ \E answer \in ResolverAnswers :
          /\ resolved' = [resolved EXCEPT ![t] = Append(@, answer)]
          /\ IF answer = "pool"
             THEN /\ pool' = [pool EXCEPT ![t] = room_id[t]]
                  /\ pc' = [pc EXCEPT ![t] = "uri"]
                  /\ UNCHANGED outcome
             ELSE Return(t, "InvalidRpcCall") /\ UNCHANGED pool
    /\ UNCHANGED <<rpc_call, room_id, uri, auth_token, invoked>>

\* handle_rpc_call, `storage::pool_by_room_id(room_id)?`: an error of the
\* resolver is returned as it is.
PoolByRoomId(t) ==
    /\ pc[t] = "resolve"
    /\ \E answer \in ResolverAnswers :
          /\ resolved' = [resolved EXCEPT ![t] = Append(@, answer)]
          /\ IF answer = "pool"
             THEN /\ pool' = [pool EXCEPT ![t] = room_id[t]]
                  /\ pc' = [pc EXCEPT ![t] = "uri"]
                  /\ UNCHANGED outcome
             ELSE Return(t, answer) /\ UNCHANGED pool
    /\ UNCHANGED <<rpc_call, room_id, uri, auth_token, invoked>>

\* handle_rpc_call, the endpoint: it must parse as a URI.
ParseEndpoint(t) ==
    /\ pc[t] = "uri"
    /\ LET parsed == ParseUri(rpc_call[t].endpoint.text)
       IN IF parsed.ok
          THEN /\ uri' = [uri EXCEPT ![t] = parsed]
               /\ pc' = [pc EXCEPT ![t] = "method"]
               /\ UNCHANGED outcome
          ELSE Return(t, "InvalidRpcCall") /\ UNCHANGED uri
    /\ UNCHANGED <<rpc_call, room_id, pool, auth_token, invoked, resolved>>

\* handle_rpc_call, the auth token and the switch on the method.
SwitchOnMethod(t) ==
    /\ pc[t] = "method"
    /\ auth_token' = [auth_token EXCEPT ![t] = get_auth_token(rpc_call[t])]
    /\ LET handler == MethodHandler(rpc_call[t].method)
       IN IF handler = ""
          THEN Return(t, "InvalidRpcCall")
          ELSE pc' = [pc EXCEPT ![t] = handler] /\ UNCHANGED outcome
    /\ UNCHANGED <<rpc_call, room_id, pool, uri, invoked, resolved>>

\* The task runs a handler to its end: the handler's calls are made, and its
\* result is the result of handle_rpc_call.
Handle(t, done) ==
    /\ invoked' = [invoked EXCEPT ![t] = @ \o done.calls]
    /\ Return(t, done.outcome)
    /\ UNCHANGED <<rpc_call, room_id, pool, uri, auth_token, resolved>>

HandleGetRequest(t) ==
    /\ pc[t] = "get"
    /\ Handle(t, handle_get_request(rpc_call[t], uri[t], pool[t]))

HandlePostRequest(t) ==
    /\ pc[t] = "post"
    /\ Handle(t, handle_post_request(rpc_call[t], uri[t], auth_token[t], pool[t]))

HandleDeleteRequest(t) ==
    /\ pc[t] = "delete"
    /\ Handle(t, handle_delete_request(rpc_call[t], uri[t], auth_token[t], pool[t]))

Next ==
    \/ \E t \in Tasks : GetRoomId(t)
    \/ \E t \in Tasks : PoolByRoomId(t)
    \/ \E t \in Tasks : ParseEndpoint(t)
    \/ \E t \in Tasks : SwitchOnMethod(t)
    \/ \E t \in Tasks : HandleGetRequest(t)
    \/ \E t \in Tasks : HandlePostRequest(t)
    \/ \E t \in Tasks : HandleDeleteRequest(t)

Spec == Init /\ [][Next]_vars
SpecConc == InitConc /\ [][Next]_vars

\* ------------------------------------------------------- claims: helpers
Done(t) == pc[t] = "done"
Called(t, name) == \E i \in DOMAIN invoked[t] : invoked[t][i].name = name
RejectedWith(t, error) == outcome[t] = error /\ invoked[t] = <<>>
\* The task passed the room, pool and endpoint gates with this method.
Routed(t, method) == Done(t) /\ uri[t].ok /\ rpc_call[t].method = method
\* The one call the task made is this one.
CalledExactly(t, call) == invoked[t] = <<call>> /\ outcome[t] = "Handled"

\* ---------------------------------------------------------------------- C1
\* C1: every envelope invokes at most one operation; an operation is invoked
\* only by a handler's final step, and an outcome that is a rejection
\* (InvalidRpcCall, or an error of the resolver) comes with no operation
\* invoked at all, while a handled envelope invoked exactly one.
C1_OneOperationOrNone ==
    \A t \in Tasks :
        /\ Len(invoked[t]) <= 1
        /\ ~Done(t) => invoked[t] = <<>> /\ outcome[t] = ""
        /\ Done(t) => outcome[t] \in {"Handled", "InvalidRpcCall"} \cup ResolverErrors
        /\ outcome[t] \in {"InvalidRpcCall"} \cup ResolverErrors => invoked[t] = <<>>
        /\ outcome[t] = "Handled" => Len(invoked[t]) = 1

\* A POST that passed every gate up to the body, whose body does not decode.
C1_Witness ==
    \E t \in Tasks :
        /\ Routed(t, "POST") /\ rpc_call[t].endpoint.text = <<"/", "block_list">>
        /\ rpc_call[t].body = Malformed
        /\ RejectedWith(t, "InvalidRpcCall")

\* ---------------------------------------------------------------------- C2
\* C2: the gates are passed in the order room, pool, endpoint, method, and
\* the first one that fails decides the outcome: without a room id the
\* outcome is InvalidRpcCall and the resolver is never called; an error of
\* the resolver is the outcome as it is, whatever the endpoint and method;
\* a malformed endpoint is InvalidRpcCall, whatever the method.
C2_GateOrder ==
    \A t \in Tasks :
        /\ Len(resolved[t]) <= 1
        /\ resolved[t] # <<>> => room_id[t] # None
        /\ uri[t].ok => resolved[t] = <<"pool">>
        /\ pc[t] \in {"get", "post", "delete"} => uri[t].ok
        /\ invoked[t] # <<>> => uri[t].ok
        /\ Done(t) /\ get_room_id(rpc_call[t]) = None
              => outcome[t] = "InvalidRpcCall" /\ resolved[t] = <<>>
        /\ Done(t) /\ resolved[t] # <<>> /\ resolved[t][1] \in ResolverErrors
              => outcome[t] = resolved[t][1]
        /\ Done(t) /\ resolved[t] = <<"pool">> /\ rpc_call[t].endpoint \in BadEndpoints
              => outcome[t] = "InvalidRpcCall" /\ ~uri[t].ok

\* The resolver failed for an envelope whose endpoint is malformed and whose
\* method is unknown.
C2_Witness ==
    \E t \in Tasks :
        /\ Done(t) /\ outcome[t] = "DatabaseFailedInternally"
        /\ rpc_call[t].endpoint \in BadEndpoints
        /\ rpc_call[t].method = "PUT"

\* ---------------------------------------------------------------------- C3
\* C3 as stated: a method other than "GET", "POST", "DELETE" always ends in
\* InvalidRpcCall with no operation invoked.
C3_UnknownMethodIsInvalidRpcCall ==
    \A t \in Tasks :
        Done(t) /\ rpc_call[t].method \notin {"GET", "POST", "DELETE"}
            => RejectedWith(t, "InvalidRpcCall")

\* C3 as amended: a method other than "GET", "POST", "DELETE" never invokes
\* an operation; the outcome is the resolver's error when pool resolution
\* failed and InvalidRpcCall in every other case.
C3_UnknownMethodRejected ==
    \A t \in Tasks :
        Done(t) /\ rpc_call[t].method \notin {"GET", "POST", "DELETE"}
            => /\ invoked[t] = <<>>
               /\ outcome[t] = IF resolved[t] # <<>> /\ resolved[t][1] \in ResolverErrors
                               THEN resolved[t][1] ELSE "InvalidRpcCall"

\* The lower-case method "get" reached the method gate with the path of a
\* GET route and was rejected there.
C3_Witness ==
    \E t \in Tasks :
        /\ Routed(t, "get") /\ uri[t].path = <<"/", "block_list">>
        /\ RejectedWith(t, "InvalidRpcCall")

\* ------------------------------------------------------- claims: oracles
\* The texts of the inputs that are integers, with their values.
Numerals ==
    {<<<<"4">>, 4>>, <<<<"-", "4">>, 0 - 4>>, <<<<"+", "4">>, 4>>, <<<<"4", "2">>, 42>>}
IsNumeral(s) == \E num \in Numerals : num[1] = s
NumeralValue(s) == (CHOOSE num \in Numerals : num[1] = s)[2]

\* A header text that is a string-to-string mapping, and the value it maps
\* a key to (the value of the key's last entry).
IsStringMap(h) == h.t = "obj" /\ \A i \in DOMAIN h.e : h.e[i].v.t = "str"
HasKey(h, key) == \E i \in DOMAIN h.e : h.e[i].k = key
ValueOf(h, key) ==
    LET at == {i \in DOMAIN h.e : h.e[i].k = key}
    IN h.e[CHOOSE i \in at : \A j \in at : j <= i].v.s

\* The segments of the task's path after the root.
Segments(t) == Split(Tail(uri[t].path))

\* ---------------------------------------------------------------------- C7
\* C7: get_room_id and get_auth_token are total functions of the header
\* text.  Both are absent when the text is empty or no string-to-string
\* mapping; otherwise the room is n iff the mapping's `Room` value is the
\* integer n (absent when missing or no integer), and the token is the
\* mapping's `Authorization` value verbatim, absent iff there is none.
\* This holds of the functions, and of the room id and token that
\* handle_rpc_call goes on with.
C7_ContextExtraction ==
    \A t \in Tasks :
        LET h == rpc_call[t].headers
            room == IF IsStringMap(h) /\ HasKey(h, "Room") /\ IsNumeral(ValueOf(h, "Room"))
                    THEN SomeInt(NumeralValue(ValueOf(h, "Room"))) ELSE None
            token == IF IsStringMap(h) /\ HasKey(h, "Authorization")
                     THEN SomeStr(ValueOf(h, "Authorization")) ELSE None
        IN /\ get_room_id(rpc_call[t]) = room
           /\ get_auth_token(rpc_call[t]) = token
           /\ pc[t] # "room" => room_id[t] = room
           /\ pc[t] \in {"get", "post", "delete"} \/ (Done(t) /\ uri[t].ok)
                 => auth_token[t] = token

\* Headers with a repeated `Room`, the last value being -4, and a token.
C7_Witness ==
    \E t \in Tasks :
        /\ rpc_call[t].headers.t = "obj" /\ Len(rpc_call[t].headers.e) = 2
        /\ room_id[t] = SomeInt(0 - 4)
        /\ auth_token[t] = SomeStr(Token2)
        /\ Done(t)

\* ---------------------------------------------------------------------- C4
\* C4: a DELETE that passed the room, pool and endpoint gates calls
\* delete_message iff its path is two segments, `messages` and an integer
\* (the server id passed); unban iff its path is two segments, the first
\* being `block_list` (the second is the public key passed);
\* delete_auth_token iff its path is /auth_token; any other path is
\* InvalidRpcCall with no operation invoked.
C4_DeleteRouting ==
    \A t \in Tasks :
        Routed(t, "DELETE") =>
            LET segs == Segments(t)
                isMessage == Len(segs) = 2 /\ segs[1] = <<"messages">> /\ IsNumeral(segs[2])
                isUnban == Len(segs) = 2 /\ segs[1] = <<"block_list">>
                isToken == uri[t].path = <<"/", "auth_token">>
            IN /\ Called(t, "delete_message") <=> isMessage
               /\ Called(t, "unban") <=> isUnban
               /\ Called(t, "delete_auth_token") <=> isToken
               /\ isMessage => CalledExactly(t, Call("delete_message",
                                   <<SomeInt(NumeralValue(segs[2]))>>, auth_token[t], pool[t]))
               /\ isUnban => CalledExactly(t, Call("unban", <<SomeStr(segs[2])>>,
                                   auth_token[t], pool[t]))
               /\ isToken => CalledExactly(t, Call("delete_auth_token", <<>>,
                                   auth_token[t], pool[t]))
               /\ ~(isMessage \/ isUnban \/ isToken) => RejectedWith(t, "InvalidRpcCall")

\* ---------------------------------------------------------------------- C5
\* C5: a GET that passed the room, pool and endpoint gates calls get_file
\* iff its path is two segments, the first being `files` (the second is the
\* id passed); /files, /files/x/y and every path that is no route of the GET
\* table are InvalidRpcCall with no operation invoked.
C5_GetFileRouting ==
    \A t \in Tasks :
        Routed(t, "GET") =>
            LET segs == Segments(t)
                isFile == Len(segs) = 2 /\ segs[1] = <<"files">>
                isRoute == uri[t].path \in
                    {<<"/", "messages">>, <<"/", "deleted_", "messages">>,
                     <<"/", "moderators">>, <<"/", "block_list">>, <<"/", "member_count">>,
                     <<"/", "auth_token", "_challenge">>}
            IN /\ Called(t, "get_file") <=> isFile
               /\ isFile => CalledExactly(t, Call("get_file", <<SomeStr(segs[2])>>,
                                                  NotPassed, None))
               /\ ~(isFile \/ isRoute) => RejectedWith(t, "InvalidRpcCall")

\* --------------------------------------------- claims: decoding, restated
IsOptional(kind) == kind \in {"opt_u16", "opt_i64"}
WellTyped(kind, v) ==
    CASE kind = "opt_u16" -> v.t = "null" \/ (v.t = "num" /\ v.n \in 0..U16Max)
      [] kind = "opt_i64" -> v.t \in {"null", "num"}
      [] OTHER -> v.t = "str"
\* The argument that a JSON scalar is, taken as it is written.
AsArgument(v) ==
    IF v.t = "num" THEN SomeInt(v.n) ELSE IF v.t = "str" THEN SomeStr(v.s) ELSE None
\* The places of a text that supply field i of a shape.
Supplied(text, shape, i) ==
    IF text.t = "obj" THEN {j \in DOMAIN text.e : text.e[j].k = shape[i].name}
    ELSE {i} \cap DOMAIN text.e
IsStructured(text, shape) ==
    text.t \in {"obj", "arr"} /\ (text.t = "arr" => Len(text.e) = Len(shape))
Decodable(text, shape) ==
    /\ IsStructured(text, shape)
    /\ \A i \in DOMAIN shape :
          LET at == Supplied(text, shape, i)
          IN /\ Cardinality(at) <= 1
             /\ at = {} => IsOptional(shape[i].kind)
             /\ \A j \in at : WellTyped(shape[i].kind, text.e[j].v)
Decoded(text, shape) ==
    [i \in DOMAIN shape |->
        LET at == Supplied(text, shape, i)
        IN IF at = {} THEN None ELSE AsArgument(text.e[CHOOSE j \in at : TRUE].v)]
HasUnknownField(text, shape) ==
    text.t = "obj" /\ \E j \in DOMAIN text.e :
                          text.e[j].k \notin {shape[i].name : i \in DOMAIN shape}

\* The routes that decode a body or a query, by the spec's tables.
Route(method, path, shape, name) ==
    [method |-> method, path |-> path, shape |-> shape, name |-> name]
PostRoutes ==
    {Route("POST", <<"/", "messages">>, MessageShape, "insert_message"),
     Route("POST", <<"/", "block_list">>, PublicKeyShape, "ban"),
     Route("POST", <<"/", "claim_", "auth_token">>, PublicKeyShape, "claim_auth_token"),
     Route("POST", <<"/", "files">>, FileShape, "store_file")}
QueryRoutes ==
    {Route("GET", <<"/", "messages">>, QueryOptions, "get_messages"),
     Route("GET", <<"/", "deleted_", "messages">>, QueryOptions, "get_deleted_messages"),
     Route("GET", <<"/", "auth_token", "_challenge">>, PublicKeyShape,
           "get_auth_token_challenge")}
OnRoute(t, r) == Routed(t, r.method) /\ uri[t].path = r.path

\* The query of the task's endpoint: whether there is one, and its JSON text.
HasQuery(t) == \E i \in DOMAIN rpc_call[t].endpoint.text : rpc_call[t].endpoint.text[i] = "?"
QueryJson(t) ==
    LET text == rpc_call[t].endpoint.text
    IN IF Len(text) >= 2 /\ text[Len(text) - 1] = "?" /\ text[Len(text)] = JsonChunk
       THEN rpc_call[t].endpoint.json ELSE Malformed
\* The text that the route decodes.
RouteInput(t, r) == IF r.method = "POST" THEN rpc_call[t].body ELSE QueryJson(t)

\* ---------------------------------------------------------------------- C6
\* C6 as stated: on each of the four POST routes a body that does not decode
\* into the route's shape is InvalidRpcCall with no operation invoked, and a
\* body that decodes calls the route's operation with the decoded arguments
\* and the auth token of the headers.
C6_PostPassesToken ==
    \A t \in Tasks : \A r \in PostRoutes :
        OnRoute(t, r) =>
            IF Decodable(rpc_call[t].body, r.shape)
            THEN CalledExactly(t, Call(r.name, Decoded(rpc_call[t].body, r.shape),
                                       get_auth_token(rpc_call[t]), pool[t]))
            ELSE RejectedWith(t, "InvalidRpcCall")

\* C6 as amended: the same, except that store_file (POST /files) is called
\* with the decoded file alone: it is handed no auth token.
C6_PostRouting ==
    \A t \in Tasks : \A r \in PostRoutes :
        OnRoute(t, r) =>
            IF Decodable(rpc_call[t].body, r.shape)
            THEN CalledExactly(t, Call(r.name, Decoded(rpc_call[t].body, r.shape),
                                       IF r.name = "store_file" THEN NotPassed
                                       ELSE get_auth_token(rpc_call[t]), pool[t]))
            ELSE RejectedWith(t, "InvalidRpcCall")

\* POST /block_list with body {"public_key":"pk1"} and an Authorization
\* header: ban is called with pk1 and the token.
C6_Witness ==
    \E t \in Tasks :
        /\ Routed(t, "POST") /\ uri[t].path = <<"/", "block_list">>
        /\ rpc_call[t].body = JObj(<<Entry("public_key", JStr(Key1))>>)
        /\ rpc_call[t].headers = RoomAndToken
        /\ invoked[t] = <<Call("ban", <<SomeStr(Key1)>>, SomeStr(Token1), SomeInt(4))>>

\* ---------------------------------------------------------------------- C8
\* C8: on GET /messages, /deleted_messages and /auth_token_challenge a
\* missing query and a query that does not decode into the route's shape are
\* InvalidRpcCall with no operation invoked; a query that decodes calls the
\* route's operation with exactly the decoded values, an omitted optional
\* field being passed as absent.
C8_QueryRouting ==
    \A t \in Tasks : \A r \in QueryRoutes :
        OnRoute(t, r) =>
            IF HasQuery(t) /\ Decodable(QueryJson(t), r.shape)
            THEN CalledExactly(t, Call(r.name, Decoded(QueryJson(t), r.shape),
                                       NotPassed, pool[t]))
            ELSE RejectedWith(t, "InvalidRpcCall")

\* GET /messages with query {"limit":10}: get_messages is called with
\* limit 10 and no from_server_id.
C8_Witness ==
    \E t \in Tasks :
        /\ Routed(t, "GET")
        /\ rpc_call[t].endpoint =
              Endpoint(<<"/", "messages", "?", JsonChunk>>, JObj(<<Entry("limit", JNum(10))>>))
        /\ invoked[t] = <<Call("get_messages", <<SomeInt(10), None>>, NotPassed, SomeInt(4))>>

\* --------------------------------------------------------------------- C10
\* C10 as stated, its part on unknown fields: on every route that decodes a
\* body or a query, an input with a field unknown to the route's shape is
\* InvalidRpcCall with no operation invoked.
C10_UnknownFieldRejected ==
    \A t \in Tasks : \A r \in PostRoutes \cup QueryRoutes :
        OnRoute(t, r) /\ HasUnknownField(RouteInput(t, r), r.shape)
            => RejectedWith(t, "InvalidRpcCall")

\* C10 as amended: on every route that decodes a body or a query, an input
\* that is no JSON object or array, that supplies a field with a value of
\* the wrong type, or that lacks a required field is InvalidRpcCall with no
\* operation invoked; every argument that is passed is a value written in
\* the input for that field, or absent; a field unknown to the route's shape
\* is ignored: it changes neither the acceptance nor the arguments.
C10_StrictDecoding ==
    \A t \in Tasks : \A r \in PostRoutes \cup QueryRoutes :
        OnRoute(t, r) =>
            LET text == RouteInput(t, r)
                known == [text EXCEPT !.e = SelectSeq(text.e,
                             LAMBDA en : en.k \in {r.shape[i].name : i \in DOMAIN r.shape})]
            IN /\ ~IsStructured(text, r.shape) => RejectedWith(t, "InvalidRpcCall")
               /\ (\E i \in DOMAIN r.shape : \E j \in Supplied(text, r.shape, i) :
                       ~WellTyped(r.shape[i].kind, text.e[j].v))
                     => RejectedWith(t, "InvalidRpcCall")
               /\ (\E i \in DOMAIN r.shape :
                       ~IsOptional(r.shape[i].kind) /\ Supplied(text, r.shape, i) = {})
                     => RejectedWith(t, "InvalidRpcCall")
               /\ invoked[t] # <<>> =>
                     \A i \in DOMAIN r.shape :
                         invoked[t][1].args[i] \in
                             {None} \cup {AsArgument(text.e[j].v) :
                                             j \in Supplied(text, r.shape, i)}
               /\ HasUnknownField(text, r.shape) =>
                     /\ outcome[t] = "Handled" <=> Decodable(known, r.shape)
                     /\ outcome[t] = "Handled" =>
                            invoked[t][1].args = Decoded(known, r.shape)

\* POST /block_list with a body that has an unknown field beside public_key:
\* ban is called.
C10_Witness ==
    \E t \in Tasks :
        /\ Routed(t, "POST") /\ uri[t].path = <<"/", "block_list">>
        /\ rpc_call[t].body = JObj(<<Entry("extra", JNum(10)), Entry("public_key", JStr(Key1))>>)
        /\ Called(t, "ban")

\* ---------------------------------------------------------------------- C9
\* C9: the routing decision of a task (its outcome and the operation it
\* calls, with arguments, auth token and room) is the decision that
\* handle_rpc_call takes on that envelope alone, given the resolver's answer,
\* however the steps of the other tasks are interleaved with its own; so two
\* tasks with the same envelope and the same answer decide the same.
C9_DecisionIsPerEnvelope ==
    /\ \A t \in Tasks :
          Done(t) =>
              [calls |-> invoked[t], outcome |-> outcome[t]]
                  = handle_rpc_call(rpc_call[t],
                                    IF resolved[t] = <<>> THEN "pool" ELSE resolved[t][1])
    /\ \A t1, t2 \in Tasks :
          Done(t1) /\ Done(t2) /\ rpc_call[t1] = rpc_call[t2] /\ resolved[t1] = resolved[t2]
              => outcome[t1] = outcome[t2] /\ invoked[t1] = invoked[t2]

\* Two tasks have handled the same envelope, and each of them called the
\* same operation.
C9_Witness ==
    \E t1, t2 \in Tasks :
        /\ t1 # t2 /\ rpc_call[t1] = rpc_call[t2]
        /\ Done(t1) /\ Done(t2)
        /\ outcome[t1] = "Handled" /\ invoked[t1] = invoked[t2] /\ invoked[t1] # <<>>

====
